---- MODULE Spec2Model ----
(***************************************************************************)
(* Model of the KeyValues parser of install_linux.py (class KeyValues,     *)
(* methods __parse and parse).  A line is a sequence of one-character      *)
(* strings, the two regular expressions are computed on those sequences,   *)
(* a mapper is an OrderedDict: a sequence of [k, v] pairs with unique      *)
(* keys.  The recursion of __parse is the variable stack, one frame per    *)
(* active call; one action is one iteration of the while loop.             *)
(***************************************************************************)
EXTENDS Integers, Sequences, FiniteSets, TLC

VARIABLES lines, pc, i, stack, result, raised, errLine, trace

vars == <<lines, pc, i, stack, result, raised, errLine, trace>>

\* Longest input, in lines.
MaxLines == 5

DQ == "\""
SQ == "'"
LB == "{"
RB == "}"
SP == " "

\* The lines an input is made of (already stripped, as parse strips them):
\* {   }   "a"   ""   "a" "x"   'a' 'y'   "b""   and the blank line.
LineSet ==
    { <<LB>>,
      <<RB>>,
      <<DQ, "a", DQ>>,
      <<DQ, DQ>>,
      <<DQ, "a", DQ, SP, DQ, "x", DQ>>,
      <<SQ, "a", SQ, SP, SQ, "y", SQ>>,
      <<DQ, "b", DQ, DQ>>,
      <<>> }

Inputs == UNION { [1..n -> LineSet] : n \in 0..MaxLines }

----------------------------------------------------------------------------
\* The regular expressions "key" and "key_value".

Min(S) == CHOOSE n \in S : \A m \in S : n <= m

IsQuote(c) == c \in {DQ, SQ}

\* Index of the first c in s at or after p, 0 when there is none.
FindFrom(s, c, p) ==
    LET S == { n \in p..Len(s) : s[n] = c }
    IN  IF S = {} THEN 0 ELSE Min(S)

\* Index of the first character of s at or after p that is not white space
\* (Len(s) + 1 when there is none).
SkipSpaces(s, p) ==
    LET S == { n \in p..Len(s) : s[n] # SP }
    IN  IF S = {} THEN Len(s) + 1 ELSE Min(S)

NoMatch == [ok |-> FALSE, key |-> <<>>, value |-> <<>>]

\* (['"])(?P<key>((?!\1).)*)\1(?!.) tried at position p of s.
MatchKeyAt(s, p) ==
    IF p > Len(s) \/ ~IsQuote(s[p]) THEN NoMatch
    ELSE LET c == FindFrom(s, s[p], p + 1)
         IN  IF c # 0 /\ c = Len(s)
             THEN [ok |-> TRUE, key |-> SubSeq(s, p + 1, c - 1), value |-> <<>>]
             ELSE NoMatch

\* (['"])(?P<key>((?!\1).)*)\1(\s+|)['"](?P<value>((?!\1).)*)\1 tried at
\* position p of s.
MatchKeyValueAt(s, p) ==
    IF p > Len(s) \/ ~IsQuote(s[p]) THEN NoMatch
    ELSE LET c == FindFrom(s, s[p], p + 1)
             r == SkipSpaces(s, c + 1)
             t == FindFrom(s, s[p], r + 1)
         IN  IF c # 0 /\ r <= Len(s) /\ IsQuote(s[r]) /\ t # 0
             THEN [ok |-> TRUE, key |-> SubSeq(s, p + 1, c - 1),
                   value |-> SubSeq(s, r + 1, t - 1)]
             ELSE NoMatch

\* re.match: the pattern at the start of s.
MatchKey(s) == MatchKeyAt(s, 1)

MatchKeyValue(s) == MatchKeyValueAt(s, 1)

\* re.search: the pattern at the leftmost position of s where it matches.
SearchKeyValue(s) ==
    LET S == { p \in 1..Len(s) : MatchKeyValueAt(s, p).ok }
    IN  IF S = {} THEN NoMatch ELSE MatchKeyValueAt(s, Min(S))

\* str.startswith, for a one-character prefix.
StartsWith(s, c) == Len(s) > 0 /\ s[1] = c

\* __key_modifier with no key_modifier given: the key itself.
KeyModifier(k) == k

\* The patterns are compiled once, as class attributes; these are their
\* results on the lines of LineSet, computed once as well.
\* re.match(key, line), whose groups re.search(key, line) gives too.
KeyOf == [s \in LineSet |-> MatchKey(s)]

\* re.match(key_value, line)
KeyValueOf == [s \in LineSet |-> MatchKeyValue(s)]

\* re.search(key_value, line)
GroupsOf == [s \in LineSet |-> SearchKeyValue(s)]

\* re.match(key_value, lines[i] + lines[i+1])
TwoLineOf == [s \in LineSet, t \in LineSet |-> MatchKeyValue(s \o t)]

\* re.search(key_value, lines[i] + " " + lines[i+1])
TwoLineGroupsOf ==
    [s \in LineSet, t \in LineSet |-> SearchKeyValue(s \o <<SP>> \o t)]

----------------------------------------------------------------------------
\* Values and mappers.

Scalar(s) == [tag |-> "S", val |-> s]

Mapping(m) == [tag |-> "M", val |-> m]

\* Put as a list of pairs would do it: every binding appended.
Put_Append(m, k, v) == Append(m, [k |-> k, v |-> v])

\* _mapper[k] = v on an OrderedDict: a key already present keeps its place
\* and takes the new value, a new key is appended.
Put(m, k, v) ==
    IF \E n \in 1..Len(m) : m[n].k = k
    THEN [n \in 1..Len(m) |-> IF m[n].k = k THEN [k |-> k, v |-> v] ELSE m[n]]
    ELSE Append(m, [k |-> k, v |-> v])

\* key = False
NoKey == [set |-> FALSE, name |-> <<>>]

\* A key the code takes as missing: "not key" is true of False and of the
\* empty string.
Falsy(key) == ~key.set \/ key.name = <<>>

\* The frame of one call of __parse: its key, its _mapper, and the value of
\* i it was called with.
NewFrame(start) == [key |-> NoKey, mapper |-> <<>>, start |-> start]

Top == stack[Len(stack)]

Depth == Len(stack)

Cur == lines[i + 1]

SetTop(f) == [stack EXCEPT ![Len(stack)] = f]

\* One entry of the history of loop iterations: the line index, the branch
\* taken, the nesting depth and frame of the iteration, and the binding made
\* (bindTo is the frame bound into, -1 when nothing is bound).
Event(case, bindTo, k, v) ==
    [line |-> i, case |-> case, depth |-> Depth, frame |-> Top.start,
     bindTo |-> bindTo, k |-> k, v |-> v]

\* _mapper[key_modifier(key)] = value of lines 243 and 247, in frame f.
Bind(f, groups) ==
    [f EXCEPT !.mapper = Put(f.mapper, KeyModifier(groups.key),
                             Scalar(groups.value))]

BindEvent(case, groups) ==
    Event(case, Top.start, KeyModifier(groups.key), Scalar(groups.value))

NoBind(case) == Event(case, -1, <<>>, Scalar(<<>>))

NoResult == [tag |-> "None", val |-> <<>>, next |-> 0]

----------------------------------------------------------------------------

\* Before parse has read the file.
Init ==
    /\ lines = <<>>
    /\ pc = "start"
    /\ i = 0
    /\ stack = <<NewFrame(0)>>
    /\ result = NoResult
    /\ raised = "none"
    /\ errLine = 0
    /\ trace = <<>>

\* Lines 256-258: parse reads the file and strips its lines, then calls
\* __parse with i = 0.
ReadLines ==
    /\ pc = "start"
    /\ lines' \in Inputs
    /\ pc' = "scan"
    /\ UNCHANGED <<i, stack, result, raised, errLine, trace>>

\* An exception leaves every active call and parse: nothing is stored.
Raise(kind, line) ==
    /\ pc' = "done"
    /\ raised' = kind
    /\ errLine' = line
    /\ UNCHANGED <<lines, i, stack, result>>

\* "return _mapper" of line 254.  The outermost call hands the mapper to
\* parse, which stores it.  A nested call hands it to line 233, which unpacks
\* it into two targets: a mapper of two keys gives i a string and the loop
\* test fails with TypeError, any other mapper fails with ValueError.
ReturnMapper ==
    IF Depth = 1
    THEN /\ pc' = "done"
         /\ result' = [tag |-> "M", val |-> Top.mapper, next |-> 0]
         /\ UNCHANGED <<lines, i, stack, raised, errLine>>
    ELSE IF Len(Top.mapper) = 2
         THEN Raise("TypeError", 0)
         ELSE Raise("ValueError", 0)

\* ReturnPair handing back i + 2: the line after the closing brace is lost.
ReturnPair_SkipsLine ==
    IF Len(stack) = 1
    THEN /\ pc' = "done"
         /\ result' = [tag |-> "T", val |-> stack[Len(stack)].mapper,
                       next |-> i + 2]
         /\ UNCHANGED <<lines, i, stack, raised, errLine>>
    ELSE LET caller == stack[Len(stack) - 1]
             bound  == [caller EXCEPT
                          !.mapper = Put(caller.mapper, caller.key.name,
                                         Mapping(stack[Len(stack)].mapper))]
         IN  /\ stack' = Append(SubSeq(stack, 1, Len(stack) - 2), bound)
             /\ i' = i + 2
             /\ UNCHANGED <<lines, pc, result, raised, errLine>>

\* "return _mapper, i + 1" of line 236.  The outermost call hands the pair to
\* parse, which stores the pair.  A nested call hands it to line 233, which
\* binds the mapper under the caller's key and continues at i + 1.
ReturnPair ==
    IF Depth = 1
    THEN /\ pc' = "done"
         /\ result' = [tag |-> "T", val |-> Top.mapper, next |-> i + 1]
         /\ UNCHANGED <<lines, i, stack, raised, errLine>>
    ELSE LET caller == stack[Len(stack) - 1]
             bound  == [caller EXCEPT
                          !.mapper = Put(caller.mapper, caller.key.name,
                                         Mapping(Top.mapper))]
         IN  /\ stack' = Append(SubSeq(stack, 1, Len(stack) - 2), bound)
             /\ i' = i + 1
             /\ UNCHANGED <<lines, pc, result, raised, errLine>>

\* Line 229: the loop test fails.
EndOfInput ==
    /\ pc = "scan"
    /\ i >= Len(lines)
    /\ trace' = trace
    /\ ReturnMapper

\* OpenBrace reporting the 0-based index of the line.
OpenBrace_ZeroBasedLine ==
    /\ pc = "scan"
    /\ i < Len(lines)
    /\ StartsWith(Cur, LB)
    /\ trace' = Append(trace, NoBind("open"))
    /\ IF Falsy(Top.key)
       THEN Raise("Exception", i)
       ELSE /\ stack' = Append(stack, NewFrame(i + 1))
            /\ i' = i + 1
            /\ UNCHANGED <<lines, pc, result, raised, errLine>>

\* Lines 230-234.
OpenBrace ==
    /\ pc = "scan"
    /\ i < Len(lines)
    /\ StartsWith(Cur, LB)
    /\ trace' = Append(trace, NoBind("open"))
    /\ IF Falsy(Top.key)
       THEN Raise("Exception", i + 1)
       ELSE /\ stack' = Append(stack, NewFrame(i + 1))
            /\ i' = i + 1
            /\ UNCHANGED <<lines, pc, result, raised, errLine>>

\* Lines 235-236.
CloseBrace ==
    /\ pc = "scan"
    /\ i < Len(lines)
    /\ ~StartsWith(Cur, LB)
    /\ StartsWith(Cur, RB)
    /\ trace' = Append(trace,
                  IF Depth = 1 THEN NoBind("close")
                  ELSE Event("close", stack[Len(stack) - 1].start,
                             stack[Len(stack) - 1].key.name,
                             Mapping(Top.mapper)))
    /\ ReturnPair

\* Lines 237-240.
KeyLine ==
    /\ pc = "scan"
    /\ i < Len(lines)
    /\ ~StartsWith(Cur, LB)
    /\ ~StartsWith(Cur, RB)
    /\ KeyOf[Cur].ok
    /\ trace' = Append(trace, NoBind("key"))
    /\ stack' = SetTop([Top EXCEPT
                          !.key = [set |-> TRUE,
                                   name |-> KeyModifier(KeyOf[Cur].key)]])
    /\ i' = i + 1
    /\ UNCHANGED <<lines, pc, result, raised, errLine>>

\* Lines 241-244.
KeyValueLine ==
    /\ pc = "scan"
    /\ i < Len(lines)
    /\ ~StartsWith(Cur, LB)
    /\ ~StartsWith(Cur, RB)
    /\ ~KeyOf[Cur].ok
    /\ KeyValueOf[Cur].ok
    /\ trace' = Append(trace, BindEvent("key_value", GroupsOf[Cur]))
    /\ stack' = SetTop(Bind(Top, GroupsOf[Cur]))
    /\ i' = i + 1
    /\ UNCHANGED <<lines, pc, result, raised, errLine>>

\* No single-line branch takes the current line.
Unmatched ==
    /\ pc = "scan"
    /\ i < Len(lines)
    /\ ~StartsWith(Cur, LB)
    /\ ~StartsWith(Cur, RB)
    /\ ~KeyOf[Cur].ok
    /\ ~KeyValueOf[Cur].ok

\* TwoLine consuming both lines it matched.
TwoLine_AdvanceTwo ==
    /\ Unmatched
    /\ i + 1 < Len(lines)
    /\ TwoLineOf[Cur, lines[i + 2]].ok
    /\ trace' = Append(trace, BindEvent("two_line", TwoLineGroupsOf[Cur, lines[i + 2]]))
    /\ stack' = SetTop(Bind(Top, TwoLineGroupsOf[Cur, lines[i + 2]]))
    /\ i' = i + 2
    /\ UNCHANGED <<lines, pc, result, raised, errLine>>

\* Lines 245-248: the match is tried on the two lines joined without a
\* separator, the groups are taken from the two lines joined by a space.
TwoLine ==
    /\ Unmatched
    /\ i + 1 < Len(lines)
    /\ TwoLineOf[Cur, lines[i + 2]].ok
    /\ IF ~TwoLineGroupsOf[Cur, lines[i + 2]].ok
       THEN /\ trace' = Append(trace, NoBind("two_line"))
            /\ Raise("AttributeError", 0)
       ELSE /\ trace' = Append(trace,
                          BindEvent("two_line", TwoLineGroupsOf[Cur, lines[i + 2]]))
            /\ stack' = SetTop(Bind(Top, TwoLineGroupsOf[Cur, lines[i + 2]]))
            /\ i' = i + 1
            /\ UNCHANGED <<lines, pc, result, raised, errLine>>

\* Skip without the increment of i.
Skip_NoAdvance ==
    /\ Unmatched
    /\ i + 1 < Len(lines)
    /\ ~TwoLineOf[Cur, lines[i + 2]].ok
    /\ trace' = Append(trace, NoBind("skip"))
    /\ i' = i
    /\ UNCHANGED <<lines, pc, stack, result, raised, errLine>>

\* Lines 249-250.
Skip ==
    /\ Unmatched
    /\ i + 1 < Len(lines)
    /\ ~TwoLineOf[Cur, lines[i + 2]].ok
    /\ trace' = Append(trace, NoBind("skip"))
    /\ i' = i + 1
    /\ UNCHANGED <<lines, pc, stack, result, raised, errLine>>

\* Lines 245 and 251-254: lines[i+1] of the last line raises IndexError, the
\* handler passes and the call returns its mapper.
LookaheadPastEnd ==
    /\ Unmatched
    /\ i + 1 >= Len(lines)
    /\ trace' = Append(trace, NoBind("index_error"))
    /\ ReturnMapper

Next ==
    \/ ReadLines
    \/ EndOfInput
    \/ OpenBrace
    \/ CloseBrace
    \/ KeyLine
    \/ KeyValueLine
    \/ TwoLine
    \/ Skip
    \/ LookaheadPastEnd

Spec == Init /\ [][Next]_vars

\* parse runs to completion: the interpreter always takes the next step.
FairSpec == Spec /\ WF_vars(Next)

----------------------------------------------------------------------------
\* What the properties below are stated with.

Last == trace[Len(trace)]

Scanned == trace # <<>>

IsBraceLine(s) == StartsWith(s, LB) \/ StartsWith(s, RB)

\* A line holding one quoted token and nothing else.
SingleToken(s) == ~IsBraceLine(s) /\ MatchKey(s).ok

HasPair(m, k, v) ==
    \E n \in 1..Len(m) : m[n].k = k /\ m[n].v.tag = v.tag /\ m[n].v = v

\* The bindings made into the mapper of frame f so far, in order.
BindsInto(f) == SelectSeq(trace, LAMBDA e : e.bindTo = f)

\* The blocks open before the line of 0-based index n, read off the text
\* alone: the 1-based index of each opening-brace line not yet closed,
\* outermost first.
RECURSIVE OpenStack(_, _)
OpenStack(ls, n) ==
    IF n = 0 THEN <<>>
    ELSE LET s == OpenStack(ls, n - 1)
         IN  IF StartsWith(ls[n], LB) THEN Append(s, n)
             ELSE IF StartsWith(ls[n], RB) /\ s # <<>>
                  THEN SubSeq(s, 1, Len(s) - 1)
                  ELSE s

Innermost(os) == IF os = <<>> THEN 0 ELSE os[Len(os)]

\* Every closing brace closes an open block and no block is left open.
Balanced(ls) ==
    /\ \A n \in 1..Len(ls) :
          StartsWith(ls[n], RB) /\ ~StartsWith(ls[n], LB)
             => OpenStack(ls, n - 1) # <<>>
    /\ OpenStack(ls, Len(ls)) = <<>>

\* Every opening brace has a key-only line before it in its own block.
KeyedOpens(ls) ==
    \A n \in 1..Len(ls) :
       StartsWith(ls[n], LB) =>
          \E j \in 1..(n - 1) :
             /\ SingleToken(ls[j])
             /\ OpenStack(ls, j - 1) = OpenStack(ls, n - 1)

\* End of input closing every open call: each frame bound under the key of
\* the frame below it.
RECURSIVE CloseAll(_)
CloseAll(st) ==
    IF Len(st) = 1 THEN st[1].mapper
    ELSE LET below == st[Len(st) - 1]
             bound == [below EXCEPT
                         !.mapper = Append(below.mapper,
                                           [k |-> below.key.name,
                                            v |-> Mapping(st[Len(st)].mapper)])]
         IN  CloseAll(Append(SubSeq(st, 1, Len(st) - 2), bound))

\* The input ended (loop test or lookahead) with the scan inside a block.
EndedInsideBlock ==
    /\ pc = "done"
    /\ Depth > 1
    /\ \/ i >= Len(lines)
       \/ (Scanned /\ Last.case = "index_error")

----------------------------------------------------------------------------
\* C1: an opening-brace line reached while no key has been set in the current
\* call ends the parse with the exception that names the 1-based number of
\* that line, at any depth; nothing is stored as the result.
C1_BraceWithoutKeyRaises ==
    [][ (pc = "scan" /\ i < Len(lines) /\ StartsWith(Cur, LB) /\ ~Top.key.set)
          => /\ pc' = "done"
             /\ raised' = "Exception"
             /\ errLine' = i + 1
             /\ result' = NoResult ]_vars

C1_Witness ==
    /\ pc = "done"
    /\ raised = "Exception"
    /\ Depth > 1
    /\ ~Top.key.set
    /\ errLine = i + 1
    /\ result = NoResult

\* C2 (as claimed): when the input ends inside unclosed blocks no error is
\* raised and parse stores the root mapping, with each unclosed block bound
\* under its key in the enclosing mapping.
C2_EndOfInputClosesBlocks ==
    EndedInsideBlock
       => /\ raised = "none"
          /\ result.tag = "M"
          /\ result.val = CloseAll(stack)

\* C3 (as claimed): whenever parse completes without raising, what it stores
\* is a mapping.
C3_RootIsMapping ==
    (pc = "done" /\ raised = "none") => result.tag = "M"

C5_TwoSingleTokenLinesBind ==
    (/\ pc = "scan"
     /\ Scanned
     /\ Last.line + 2 <= Len(lines)
     /\ SingleToken(lines[Last.line + 1])
     /\ SingleToken(lines[Last.line + 2]))
       => HasPair(Top.mapper, MatchKey(lines[Last.line + 1]).key,
                  Scalar(MatchKey(lines[Last.line + 2]).key))

\* C6: on a brace-balanced input whose opening braces all follow a key-only
\* line of their block, the lines are handled one by one in order, each in
\* the call of the innermost block open at it; a key/value binding goes into
\* that block's mapper, and a closed block is bound into the block enclosing
\* it, where the scan resumes at the line after the closing brace.
C6_TreeMirrorsBraces ==
    (Balanced(lines) /\ KeyedOpens(lines)) =>
       /\ \A n \in 1..Len(trace) :
             LET e  == trace[n]
                 os == OpenStack(lines, e.line)
             IN  /\ e.line = n - 1
                 /\ e.depth = Len(os) + 1
                 /\ e.frame = Innermost(os)
                 /\ e.case \in {"key_value", "two_line"} => e.bindTo = e.frame
                 /\ e.case = "close" =>
                       e.bindTo = Innermost(OpenStack(lines, e.line + 1))
       /\ pc = "scan" =>
             /\ i = Len(trace)
             /\ [d \in 1..Len(stack) |-> stack[d].start]
                   = <<0>> \o OpenStack(lines, i)
       /\ (pc = "scan" /\ Scanned /\ Last.bindTo # -1) =>
             /\ Top.start = Last.bindTo
             /\ HasPair(Top.mapper, Last.k, Last.v)

C6_Witness ==
    /\ Balanced(lines) /\ KeyedOpens(lines)
    /\ pc = "scan"
    /\ Depth = 1
    /\ Scanned
    /\ Last.case = "key_value"
    /\ \E n \in 1..Len(trace) : trace[n].case = "close" /\ trace[n].depth = 2
    /\ \E n \in 1..Len(trace) : trace[n].case = "key_value" /\ trace[n].depth = 2

\* C7 (as claimed): once a block has been bound under the pending key, no key
\* is pending in that call.
C7_KeyClearedAfterBlock ==
    (pc = "scan" /\ Scanned /\ Last.case = "close") => ~Top.key.set

\* C8 (as claimed): a last line that no case takes is dropped without an
\* error, at the top level or inside a block, and parse stores a mapping (at
\* the top level, the mapper as it was before that line).
C8_UnmatchedLastLineDropped ==
    (pc = "done" /\ Scanned /\ Last.case = "index_error")
       => /\ raised = "none"
          /\ result.tag = "M"
          /\ Depth = 1 => result.val = Top.mapper

\* C9: when the current line matches nothing alone but matches the key/value
\* pattern together with the next line, the pair is bound in the current
\* mapper and i advances by one, so that the next line is the current line
\* of the following iteration.
C9_TwoLineAdvancesByOne ==
    /\ [][ (/\ Unmatched
            /\ i + 1 < Len(lines)
            /\ TwoLineOf[Cur, lines[i + 2]].ok)
             => /\ i' = i + 1
                /\ pc' = "scan"
                /\ Len(stack') = Len(stack)
                /\ HasPair(stack'[Len(stack')].mapper,
                           TwoLineGroupsOf[Cur, lines[i + 2]].key,
                           Scalar(TwoLineGroupsOf[Cur, lines[i + 2]].value)) ]_vars
    /\ [](\A n \in 1..(Len(trace) - 1) :
             trace[n].case = "two_line"
                => trace[n + 1].line = trace[n].line + 1)

C9_Witness ==
    \E n \in 1..(Len(trace) - 1) :
       /\ trace[n].case = "two_line"
       /\ trace[n + 1].line = trace[n].line + 1
       /\ trace[n + 1].case \in {"key", "key_value"}

\* C10: parse terminates; every iteration returns, raises or leaves i
\* greater than before; a call returning on a closing brace hands back an i
\* greater than the index of its opening brace; no line index is the current
\* line of two iterations.
C10_Terminates ==
    /\ <>(pc = "done")
    /\ [][ pc = "scan" => (pc' = "done" \/ i' > i) ]_vars
    /\ [][ (pc = "scan" /\ pc' = "scan" /\ Len(stack') < Len(stack))
             => i' > Top.start - 1 ]_vars
    /\ [](\A n, n2 \in 1..Len(trace) :
             n < n2 => trace[n].line < trace[n2].line)

C10_Witness ==
    /\ pc = "done"
    /\ Len(trace) = MaxLines
    /\ \E n \in 1..Len(trace) : trace[n].case = "close" /\ trace[n].depth > 1
    /\ \E n \in 1..Len(trace) : trace[n].case = "skip"
====
